---- MODULE Spec2Model ----
(***************************************************************************)
(* StudenTools backend: the diagram pipeline.                              *)
(*   diagram_generator.generate_graphviz_dot   (graph compiler)            *)
(*   diagram_generator.render_diagram_to_bytes (render invoker)            *)
(*   main.generate_diagram_endpoint            (POST /generate-diagram/)   *)
(*                                                                         *)
(* Strings the code transforms character by character (node ids, the       *)
(* footer text, the renderer's stderr) are sequences of one-character      *)
(* strings; strings the code only copies (names, labels, types) are TLA+   *)
(* strings.  A DOT document is the sequence of its statements, one record  *)
(* per appended line of dot_commands.                                      *)
(***************************************************************************)
EXTENDS Integers, Sequences, FiniteSets, TLC

VARIABLES data, dot_script, pc, body, script, proc, resp, loop, calls, spawned

vars == <<data, dot_script, pc, body, script, proc, resp, loop, calls, spawned>>

(***************************************************************************)
(* Bounds of the model.                                                    *)
(***************************************************************************)
MaxNodes == 2
MaxConns == 2
MaxIdLen == 2
NumReqs == 2

SeqsUpTo(S, n) == UNION {[1..k -> S] : k \in 0..n}

(***************************************************************************)
(* str.replace(old, new) for a one-character old.                          *)
(***************************************************************************)
RECURSIVE Replace(_, _, _)
Replace(s, old, new) ==
  IF s = <<>> THEN <<>>
  ELSE (IF Head(s) = old THEN new ELSE <<Head(s)>>) \o Replace(Tail(s), old, new)

\* A sanitizer that forgets the hyphen.
GraphvizIdSpacesOnly(id) == Replace(id, " ", <<"_">>)

\* graphviz_id = node["id"].replace(" ", "_").replace("-", "_")
GraphvizId(id) == Replace(Replace(id, " ", <<"_">>), "-", <<"_">>)

\* dict.get(key, default)
DictGet(d, key, default) == IF key \in DOMAIN d THEN d[key] ELSE default

(***************************************************************************)
(* Node styling: the if/elif chain on node["type"].                        *)
(***************************************************************************)
\* A style chain whose database branch keeps the node's name.
NodeStyleKeepsName(node) ==
  LET base == [label |-> node.name, shape |-> "box",
               fillcolor |-> "white", fontcolor |-> "black"]
  IN  IF node.type = "server"
        THEN [base EXCEPT !.shape = "ellipse", !.fillcolor = "lightskyblue"]
      ELSE IF node.type = "branch"
        THEN [base EXCEPT !.shape = "box", !.fillcolor = "coral"]
      ELSE IF node.type = "headquarters"
        THEN [base EXCEPT !.shape = "box", !.fillcolor = "darkgray",
                          !.fontcolor = "white"]
      ELSE IF node.type = "db_management"
        THEN [base EXCEPT !.shape = "oval", !.fillcolor = "lightsteelblue"]
      ELSE IF node.type = "database"
        THEN [base EXCEPT !.shape = "ellipse", !.fillcolor = "plum"]
      ELSE base

NodeStyle(node) ==
  LET base == [label |-> node.name, shape |-> "box",
               fillcolor |-> "white", fontcolor |-> "black"]
  IN  IF node.type = "server"
        THEN [base EXCEPT !.shape = "ellipse", !.fillcolor = "lightskyblue"]
      ELSE IF node.type = "branch"
        THEN [base EXCEPT !.shape = "box", !.fillcolor = "coral"]
      ELSE IF node.type = "headquarters"
        THEN [base EXCEPT !.shape = "box", !.fillcolor = "darkgray",
                          !.fontcolor = "white"]
      ELSE IF node.type = "db_management"
        THEN [base EXCEPT !.shape = "oval", !.fillcolor = "lightsteelblue"]
      ELSE IF node.type = "database"
        THEN [base EXCEPT !.shape = "ellipse", !.fillcolor = "plum",
                          !.label = "BD"]
      ELSE base

\* dot_commands.append(f'  "{graphviz_id}" [label=..., shape=..., ...];')
NodeDecl(node) ==
  LET st == NodeStyle(node)
  IN  [kind |-> "node", id |-> GraphvizId(node.id), label |-> st.label,
       shape |-> st.shape, fillcolor |-> st.fillcolor,
       fontcolor |-> st.fontcolor]

NodeDecls(nodes) == [i \in 1..Len(nodes) |-> NodeDecl(nodes[i])]

\* node_id_map after the node loop: the last node with a raw id sets its entry.
NodeIdMap(nodes) ==
  [raw \in {nodes[i].id : i \in 1..Len(nodes)} |->
     LET last == CHOOSE i \in 1..Len(nodes) :
                   /\ nodes[i].id = raw
                   /\ \A j \in 1..Len(nodes) : nodes[j].id = raw => j <= i
     IN  GraphvizId(nodes[last].id)]

\* node_id_map.get(key): None when the key is absent.
MapGet(m, key) ==
  IF key \in DOMAIN m THEN [found |-> TRUE, value |-> m[key]]
  ELSE [found |-> FALSE, value |-> <<>>]

\* Python's "not x" for x a str or None.
Falsy(x) == ~x.found \/ x.value = <<>>

(***************************************************************************)
(* Connection styling: the if/elif chain on conn["type"].                  *)
(***************************************************************************)
\* A style chain that draws bidirectional connections with dir=both.
ConnStyleUsesDirection(conn) ==
  LET base == [label |-> conn.label, arrowhead |-> "normal",
               color |-> "darkgreen", style |-> "solid",
               dir |-> IF "direction" \in DOMAIN conn
                          /\ conn.direction = "bidirectional"
                       THEN "both" ELSE "forward"]
  IN  IF conn.type = "sales_report"
        THEN [base EXCEPT !.color = "darkgreen", !.label = "Ventas"]
      ELSE IF conn.type = "inventory_report"
        THEN [base EXCEPT !.color = "darkred", !.label = "Inventario"]
      ELSE IF conn.type = "master_data_replication"
        THEN [base EXCEPT !.color = "blue", !.style = "dashed",
                          !.label = "Datos Maestros"]
      ELSE IF conn.type = "network"
        THEN [base EXCEPT !.color = "darkgreen", !.label = "IP"]
      ELSE IF conn.type = "local_db_access"
        THEN [base EXCEPT !.color = "darkgreen", !.label = ""]
      ELSE IF conn.type = "management_link"
        THEN [base EXCEPT !.color = "darkgreen", !.label = ""]
      ELSE base

\* A style chain whose network branch keeps the connection's own label.
ConnStyleNetworkKeepsLabel(conn) ==
  LET base == [label |-> conn.label, arrowhead |-> "normal",
               color |-> "darkgreen", style |-> "solid", dir |-> "forward"]
  IN  IF conn.type = "sales_report"
        THEN [base EXCEPT !.color = "darkgreen", !.label = "Ventas"]
      ELSE IF conn.type = "inventory_report"
        THEN [base EXCEPT !.color = "darkred", !.label = "Inventario"]
      ELSE IF conn.type = "master_data_replication"
        THEN [base EXCEPT !.color = "blue", !.style = "dashed",
                          !.label = "Datos Maestros"]
      ELSE IF conn.type = "network"
        THEN [base EXCEPT !.color = "darkgreen"]
      ELSE IF conn.type = "local_db_access"
        THEN [base EXCEPT !.color = "darkgreen", !.label = ""]
      ELSE IF conn.type = "management_link"
        THEN [base EXCEPT !.color = "darkgreen", !.label = ""]
      ELSE base

ConnStyle(conn) ==
  LET base == [label |-> conn.label, arrowhead |-> "normal",
               color |-> "darkgreen", style |-> "solid", dir |-> "forward"]
  IN  IF conn.type = "sales_report"
        THEN [base EXCEPT !.color = "darkgreen", !.label = "Ventas"]
      ELSE IF conn.type = "inventory_report"
        THEN [base EXCEPT !.color = "darkred", !.label = "Inventario"]
      ELSE IF conn.type = "master_data_replication"
        THEN [base EXCEPT !.color = "blue", !.style = "dashed",
                          !.label = "Datos Maestros"]
      ELSE IF conn.type = "network"
        THEN [base EXCEPT !.color = "darkgreen", !.label = "IP"]
      ELSE IF conn.type = "local_db_access"
        THEN [base EXCEPT !.color = "darkgreen", !.label = ""]
      ELSE IF conn.type = "management_link"
        THEN [base EXCEPT !.color = "darkgreen", !.label = ""]
      ELSE base

\* dot_commands.append(f'  "{source}" -> "{target}" [label=..., ...];')
EdgeDecl(src, tgt, conn) ==
  LET st == ConnStyle(conn)
  IN  [kind |-> "edge", src |-> src, tgt |-> tgt, label |-> st.label,
       arrowhead |-> st.arrowhead, color |-> st.color, style |-> st.style,
       dir |-> st.dir]

\* The connection loop: a connection with a falsy endpoint lookup is skipped.
RECURSIVE EdgeDecls(_, _)
EdgeDecls(conns, m) ==
  IF conns = <<>> THEN <<>>
  ELSE LET conn == Head(conns)
           source_graphviz_id == MapGet(m, conn.source_id)
           target_graphviz_id == MapGet(m, conn.target_id)
       IN  IF Falsy(source_graphviz_id) \/ Falsy(target_graphviz_id)
             THEN EdgeDecls(Tail(conns), m)
             ELSE <<EdgeDecl(source_graphviz_id.value,
                             target_graphviz_id.value, conn)>>
                  \o EdgeDecls(Tail(conns), m)

(***************************************************************************)
(* The fixed parts of the document.                                        *)
(***************************************************************************)
FooterId == <<"f","o","o","t","e","r","_","d","e","s","c","r","i","p","t","i","o","n">>
YucatanHQ == <<"Y","u","c","a","t","a","n","_","H","Q">>

Header(d) ==
  << [kind |-> "open", name |-> "G"],
     [kind |-> "attr", key |-> "charset", value |-> "UTF-8"],
     [kind |-> "attr", key |-> "rankdir", value |-> "TB"],
     [kind |-> "node_default", style |-> "filled", fontname |-> "Helvetica",
      fontsize |-> "10"],
     [kind |-> "edge_default", fontname |-> "Helvetica", fontsize |-> "8"],
     [kind |-> "attr", key |-> "labeljust", value |-> "c"],
     [kind |-> "attr", key |-> "labelloc", value |-> "t"],
     [kind |-> "title",
      label |-> DictGet(d, "company_name", "Diagrama de Arquitectura")],
     [kind |-> "attr", key |-> "fontsize", value |-> "20"] >>

\* footer_text = data.get("general_network_description", "").replace('"', '\\"')
FooterText(d) ==
  Replace(DictGet(d, "general_network_description", <<>>), "\"", <<"\\", "\"">>)

Footer(d) ==
  << [kind |-> "footer", id |-> FooterId, shape |-> "box", style |-> "filled",
      fillcolor |-> "lavenderblush", color |-> "purple",
      fontcolor |-> "black", fontsize |-> "10", text |-> FooterText(d)],
     [kind |-> "rank", rank |-> "sink", id |-> FooterId],
     [kind |-> "invis_edge", src |-> YucatanHQ, tgt |-> FooterId,
      style |-> "invis"],
     [kind |-> "close"] >>

\* generate_graphviz_dot(data): the statements of the returned document.
GenerateGraphvizDot(d) ==
  Header(d)
    \o NodeDecls(d.nodes)
    \o EdgeDecls(d.connections, NodeIdMap(d.nodes))
    \o Footer(d)

(***************************************************************************)
(* Requests handed to the compiler: dictionaries as data.dict() returns    *)
(* them (every field of DiagramData, NodeModel and ConnectionModel set).   *)
(***************************************************************************)
Node(id, name, type, hld) ==
  [id |-> id, name |-> name, type |-> type, has_local_db |-> hld]

Conn(s, t, label, type, direction) ==
  [source_id |-> s, target_id |-> t, label |-> label, type |-> type,
   direction |-> direction]

Request(company, nodes, conns, descr) ==
  [company_name |-> company, nodes |-> nodes, connections |-> conns,
   general_network_description |-> descr]

Chars == {"a", " ", "-", "_"}
RawIds == SeqsUpTo(Chars, MaxIdLen)
YucatanRaw == <<"Y","u","c","a","t","a","n","-","H","Q">>

NodeTypes ==
  {"server", "branch", "headquarters", "db_management", "database",
   "router", ""}
ConnTypes ==
  {"sales_report", "inventory_report", "master_data_replication", "network",
   "local_db_access", "management_link", "vpn", ""}
Names == {"Sucursal Norte", "BD Norte"}
Labels == {"enlace", ""}
Directions == {"unidirectional", "bidirectional"}
Descriptions == {<<>>, <<"r", "e", "d">>, <<"\"", "a", "\"">>}

\* Graph structure: ids that are empty, collide after sanitization or are
\* missing from the node list; one style throughout.
StructIds == {<<>>, <<"a", " ">>, <<"a", "-">>}
StructRequests ==
  {Request("Co", ns, cs, <<>>) :
     ns \in SeqsUpTo({Node(id, "Sucursal Norte", "branch", FALSE) :
                        id \in StructIds}, MaxNodes),
     cs \in SeqsUpTo({Conn(s, t, "enlace", "network", "unidirectional") :
                        s \in StructIds, t \in StructIds}, MaxConns)}

\* One node of every type, name and has_local_db value.
NodeStyleRequests ==
  {Request("Co", <<Node(<<"a">>, name, type, hld)>>, <<>>, <<>>) :
     name \in Names, type \in NodeTypes, hld \in BOOLEAN}

\* One connection of every type, label and direction between two nodes.
ConnStyleRequests ==
  {Request("Co",
           <<Node(<<"a">>, "Sucursal Norte", "branch", FALSE),
             Node(YucatanRaw, "Yucatan", "headquarters", TRUE)>>,
           <<Conn(<<"a">>, YucatanRaw, label, type, direction)>>, <<>>) :
     label \in Labels, type \in ConnTypes, direction \in Directions}

\* One node of every raw id, connected to itself.
IdRequests ==
  {Request("Co", <<Node(id, "Sucursal Norte", "server", FALSE)>>,
           <<Conn(id, id, "enlace", "vpn", "unidirectional")>>, <<>>) :
     id \in RawIds}

\* Titles and footer texts.
FooterRequests ==
  {Request(company, <<>>, <<>>, descr) :
     company \in {"Co", ""}, descr \in Descriptions}

Requests ==
  StructRequests \cup NodeStyleRequests \cup ConnStyleRequests
    \cup IdRequests \cup FooterRequests

NoScript == <<>>
Reqs == 1..NumReqs
NoBody == [wellformed |-> FALSE, json |-> [none |-> TRUE]]
NoProc == [state |-> "none"]
NoResp == [status |-> 0]

EndpointIdle ==
  /\ pc = [r \in Reqs |-> "idle"]
  /\ body = [r \in Reqs |-> NoBody]
  /\ script = [r \in Reqs |-> NoScript]
  /\ proc = [r \in Reqs |-> NoProc]
  /\ resp = [r \in Reqs |-> NoResp]
  /\ loop = 0
  /\ calls = [r \in Reqs |-> 0]
  /\ spawned = [r \in Reqs |-> 0]

(***************************************************************************)
(* The compiler on its own: a request is drawn and compiled once.          *)
(***************************************************************************)
InitDot ==
  /\ data \in Requests
  /\ dot_script = NoScript
  /\ EndpointIdle

Compile ==
  /\ dot_script = NoScript
  /\ dot_script' = GenerateGraphvizDot(data)
  /\ UNCHANGED <<data, pc, body, script, proc, resp, loop, calls, spawned>>

NextDot == Compile

SpecDot == InitDot /\ [][NextDot]_vars

(***************************************************************************)
(* Properties of the compiled document.                                    *)
(***************************************************************************)
Compiled == dot_script # NoScript

NodeStmts == SelectSeq(dot_script, LAMBDA st : st.kind = "node")
EdgeStmts == SelectSeq(dot_script, LAMBDA st : st.kind = "edge")
FooterStmts == SelectSeq(dot_script, LAMBDA st : st.kind = "footer")

ListedIds == {data.nodes[i].id : i \in 1..Len(data.nodes)}

\* The connections whose two endpoints are ids of listed nodes, in input order.
ListedConns ==
  SelectSeq(data.connections,
            LAMBDA c : c.source_id \in ListedIds /\ c.target_id \in ListedIds)

\* The connections the connection loop does not skip, in input order.
EmittedConns ==
  SelectSeq(data.connections,
            LAMBDA c : /\ c.source_id \in ListedIds /\ c.source_id # <<>>
                       /\ c.target_id \in ListedIds /\ c.target_id # <<>>)

\* C1: a connection with an endpoint that is no listed node's id yields no
\* edge and does not stop the compilation, and every connection whose two
\* endpoints are ids of listed nodes is emitted, wherever the bad ones stand:
\* the document is complete and its edges are exactly the connections with two
\* listed endpoints, in input order.
C1_EdgesAreTheListedConnections ==
  Compiled =>
    /\ dot_script[Len(dot_script)].kind = "close"
    /\ Len(EdgeStmts) = Len(ListedConns)
    /\ \A i \in 1..Len(EdgeStmts) :
         /\ i <= Len(ListedConns)
         /\ EdgeStmts[i].src = GraphvizId(ListedConns[i].source_id)
         /\ EdgeStmts[i].tgt = GraphvizId(ListedConns[i].target_id)

\* C3: with pairwise distinct node ids and every connection endpoint the id of
\* a listed node, the document has one node declaration per input node, one
\* footer node and as many edge declarations as input connections.
C3_DeclarationCounts ==
  ( /\ Compiled
    /\ \A i, j \in 1..Len(data.nodes) :
         data.nodes[i].id = data.nodes[j].id => i = j
    /\ \A k \in 1..Len(data.connections) :
         /\ data.connections[k].source_id \in ListedIds
         /\ data.connections[k].target_id \in ListedIds )
  => /\ Len(NodeStmts) = Len(data.nodes)
     /\ Len(FooterStmts) = 1
     /\ Len(EdgeStmts) = Len(data.connections)

\* The node style table of the specification.
TableNodeStyle(type, name) ==
  CASE type = "server" ->
         [shape |-> "ellipse", fillcolor |-> "lightskyblue",
          fontcolor |-> "black", label |-> name]
    [] type = "branch" ->
         [shape |-> "box", fillcolor |-> "coral",
          fontcolor |-> "black", label |-> name]
    [] type = "headquarters" ->
         [shape |-> "box", fillcolor |-> "darkgray",
          fontcolor |-> "white", label |-> name]
    [] type = "db_management" ->
         [shape |-> "oval", fillcolor |-> "lightsteelblue",
          fontcolor |-> "black", label |-> name]
    [] type = "database" ->
         [shape |-> "ellipse", fillcolor |-> "plum",
          fontcolor |-> "black", label |-> "BD"]
    [] OTHER ->
         [shape |-> "box", fillcolor |-> "white",
          fontcolor |-> "black", label |-> name]

\* C4: the i-th node declaration carries the shape, fill colour, font colour
\* and label the node style table gives for the i-th node's type and name.
C4_NodeStyleMatchesTable ==
  Compiled =>
    /\ Len(NodeStmts) = Len(data.nodes)
    /\ \A i \in 1..Len(data.nodes) :
         LET want == TableNodeStyle(data.nodes[i].type, data.nodes[i].name)
             got == NodeStmts[i]
         IN  /\ got.shape = want.shape
             /\ got.fillcolor = want.fillcolor
             /\ got.fontcolor = want.fontcolor
             /\ got.label = want.label

\* A database node named otherwise is declared with the label "BD".
C4_Witness ==
  /\ Compiled
  /\ \E i \in 1..Len(data.nodes) :
       /\ data.nodes[i].type = "database"
       /\ data.nodes[i].name = "Sucursal Norte"
       /\ i <= Len(NodeStmts)
       /\ NodeStmts[i].label = "BD"
       /\ NodeStmts[i].fillcolor = "plum"

\* The connection style table of the specification.
TableConnStyle(type, label) ==
  CASE type = "sales_report" ->
         [label |-> "Ventas", color |-> "darkgreen", style |-> "solid"]
    [] type = "inventory_report" ->
         [label |-> "Inventario", color |-> "darkred", style |-> "solid"]
    [] type = "master_data_replication" ->
         [label |-> "Datos Maestros", color |-> "blue", style |-> "dashed"]
    [] type = "network" ->
         [label |-> "IP", color |-> "darkgreen", style |-> "solid"]
    [] type \in {"local_db_access", "management_link"} ->
         [label |-> "", color |-> "darkgreen", style |-> "solid"]
    [] OTHER ->
         [label |-> label, color |-> "darkgreen", style |-> "solid"]

\* C5: the i-th edge declaration carries the label, colour and line style the
\* connection style table gives for the type (and label) of the i-th emitted
\* connection.
C5_ConnStyleMatchesTable ==
  Compiled =>
    /\ Len(EdgeStmts) = Len(EmittedConns)
    /\ \A i \in 1..Len(EmittedConns) :
         LET want == TableConnStyle(EmittedConns[i].type, EmittedConns[i].label)
             got == EdgeStmts[i]
         IN  /\ got.label = want.label
             /\ got.color = want.color
             /\ got.style = want.style

\* A network connection with its own label is drawn with the label "IP", and
\* one of an unrecognized type keeps its label.
C5_Witness ==
  /\ Compiled
  /\ Len(EdgeStmts) = 1
  /\ Len(EmittedConns) = 1
  /\ \/ /\ EmittedConns[1].type = "network"
        /\ EmittedConns[1].label = "enlace"
        /\ EdgeStmts[1].label = "IP"
     \/ /\ EmittedConns[1].type = "vpn"
        /\ EdgeStmts[1].label = "enlace"

\* The request with every direction and has_local_db set to one fixed value.
EraseAdvisory(d) ==
  [d EXCEPT
     !.nodes = [i \in 1..Len(d.nodes) |->
                  [d.nodes[i] EXCEPT !.has_local_db = FALSE]],
     !.connections = [k \in 1..Len(d.connections) |->
                        [d.connections[k] EXCEPT !.direction = "unidirectional"]]]

\* C9: the document is the one compiled from the request with its direction
\* and has_local_db values erased (so requests differing only there compile
\* alike), and every connection edge has arrowhead normal and dir=forward.
C9_DirectionNotConsulted ==
  Compiled =>
    /\ dot_script = GenerateGraphvizDot(EraseAdvisory(data))
    /\ \A i \in 1..Len(EdgeStmts) :
         EdgeStmts[i].arrowhead = "normal" /\ EdgeStmts[i].dir = "forward"

\* A bidirectional connection between nodes, one of them with a local
\* database, has been compiled to an edge.
C9_Witness ==
  /\ Compiled
  /\ Len(EdgeStmts) = 1
  /\ \E k \in 1..Len(data.connections) :
       data.connections[k].direction = "bidirectional"
  /\ \E i \in 1..Len(data.nodes) : data.nodes[i].has_local_db
  /\ EraseAdvisory(data) # data

HasChar(s, c) == \E i \in 1..Len(s) : s[i] = c

\* C10: the id of every node declaration has no space and no hyphen, is left
\* unchanged by another sanitization, and is the same for nodes with the same
\* raw id.
C10_SanitizedIds ==
  Compiled =>
    /\ Len(NodeStmts) = Len(data.nodes)
    /\ \A i \in 1..Len(data.nodes) :
         /\ ~HasChar(NodeStmts[i].id, " ")
         /\ ~HasChar(NodeStmts[i].id, "-")
         /\ Len(NodeStmts[i].id) = Len(data.nodes[i].id)
         /\ GraphvizId(NodeStmts[i].id) = NodeStmts[i].id
         /\ \A j \in 1..Len(data.nodes) :
              data.nodes[i].id = data.nodes[j].id
                => NodeStmts[i].id = NodeStmts[j].id

\* A raw id with a space and a hyphen has been declared with underscores.
C10_Witness ==
  /\ Compiled
  /\ \E i \in 1..Len(data.nodes) :
       /\ data.nodes[i].id = <<" ", "-">>
       /\ i <= Len(NodeStmts)
       /\ NodeStmts[i].id = <<"_", "_">>

(***************************************************************************)
(* POST /generate-diagram/: request bodies as they arrive on the wire.     *)
(* A body is JSON text that parses or does not; a parsed body is a record  *)
(* that may lack fields.                                                   *)
(***************************************************************************)
DropField(rec, f) == [k \in DOMAIN rec \ {f} |-> rec[k]]

TopFields ==
  {"company_name", "nodes", "connections", "general_network_description"}
NodeRequired == {"id", "name", "type"}
ConnRequired == {"source_id", "target_id", "label", "type", "direction"}

ReqA ==
  Request("Co",
          <<Node(<<"a">>, "Sucursal Norte", "branch", TRUE),
            Node(YucatanRaw, "Yucatan", "headquarters", FALSE)>>,
          <<Conn(<<"a">>, YucatanRaw, "enlace", "network", "unidirectional")>>,
          <<"r", "e", "d">>)

ReqB ==
  Request("Co",
          <<Node(<<"a">>, "BD Norte", "database", FALSE)>>,
          <<Conn(<<"a">>, <<"a", "-">>, "enlace", "vpn", "bidirectional")>>,
          <<>>)

ValidBodies ==
  {[wellformed |-> TRUE, json |-> ReqA],
   [wellformed |-> TRUE, json |-> ReqB],
   [wellformed |-> TRUE,
    json |-> [ReqA EXCEPT !.nodes[1] = DropField(@, "has_local_db")]]}

RejectedBodies ==
  {[wellformed |-> FALSE, json |-> [text |-> "{"]]}
    \cup {[wellformed |-> TRUE, json |-> DropField(ReqA, f)] : f \in TopFields}
    \cup {[wellformed |-> TRUE,
           json |-> [ReqA EXCEPT !.nodes[1] = DropField(@, f)]] :
            f \in NodeRequired}
    \cup {[wellformed |-> TRUE,
           json |-> [ReqA EXCEPT !.connections[1] = DropField(@, f)]] :
            f \in ConnRequired}

Bodies == ValidBodies \cup RejectedBodies

\* A DiagramData that does not require a connection's direction.
ValidateDirectionOptional(b) ==
  /\ b.wellformed
  /\ TopFields \subseteq DOMAIN b.json
  /\ \A i \in 1..Len(b.json.nodes) :
       {"id", "name", "type"} \subseteq DOMAIN b.json.nodes[i]
  /\ \A k \in 1..Len(b.json.connections) :
       {"source_id", "target_id", "label", "type"}
         \subseteq DOMAIN b.json.connections[k]

\* Parsing the body as DiagramData: every field without a default is required.
Validate(b) ==
  /\ b.wellformed
  /\ {"company_name", "nodes", "connections", "general_network_description"}
       \subseteq DOMAIN b.json
  /\ \A i \in 1..Len(b.json.nodes) :
       {"id", "name", "type"} \subseteq DOMAIN b.json.nodes[i]
  /\ \A k \in 1..Len(b.json.connections) :
       {"source_id", "target_id", "label", "type", "direction"}
         \subseteq DOMAIN b.json.connections[k]

\* data.dict(): has_local_db takes its default when the body leaves it out.
DataDict(b) ==
  [company_name |-> b.json.company_name,
   nodes |-> [i \in 1..Len(b.json.nodes) |->
                LET n == b.json.nodes[i]
                IN  [id |-> n.id, name |-> n.name, type |-> n.type,
                     has_local_db |-> DictGet(n, "has_local_db", FALSE)]],
   connections |-> b.json.connections,
   general_network_description |-> b.json.general_network_description]

(***************************************************************************)
(* The renderer process and render_diagram_to_bytes.                       *)
(***************************************************************************)
Stdouts == {<<"PNG", "IEND">>, <<"PNG">>}
Stderrs == {<<"E">>, <<"E", "xFF">>}
InvalidUtf8 == {"xFF"}

\* How subprocess.run can end once the process has been started.
Exits ==
  [state : {"exited"}, returncode : {0, 1}, stdout : Stdouts, stderr : Stderrs]

\* How starting the process can fail.
SpawnErrors == {"FileNotFoundError", "PermissionError"}

\* bytes.decode("utf-8", errors="ignore")
DecodeIgnore(bs) == SelectSeq(bs, LAMBDA b : b \notin InvalidUtf8)

\* subprocess.run without check=True.
RenderDiagramToBytesUnchecked(p) ==
  IF p.state = "exited"
    THEN [raised |-> FALSE, value |-> p.stdout]
    ELSE [raised |-> TRUE, exc |-> [type |-> p.state]]

\* render_diagram_to_bytes: result.stdout, or the exception it re-raises.
RenderDiagramToBytes(p) ==
  IF p.state = "exited"
    THEN IF p.returncode = 0
           THEN [raised |-> FALSE, value |-> p.stdout]
           ELSE [raised |-> TRUE,
                 exc |-> [type |-> "CalledProcessError", stdout |-> p.stdout,
                          stderr |-> p.stderr]]
    ELSE [raised |-> TRUE, exc |-> [type |-> p.state]]

(***************************************************************************)
(* The endpoint.                                                           *)
(***************************************************************************)
\* The names bound in main.py's module namespace.
MainNames ==
  {"FastAPI", "HTTPException", "Response", "BaseModel", "Field", "json",
   "List", "Optional", "generate_graphviz_dot", "render_diagram_to_bytes",
   "create_document_docx", "create_presentation_pptx", "app", "NodeModel",
   "ConnectionModel", "DiagramData", "DocxTableDataRow", "DocxData",
   "PptxData"}

\* raise HTTPException(status_code=500, detail=...): a JSON {detail} response.
HTTPException500(msg, arg) ==
  [status |-> 500, media_type |-> "application/json",
   content |-> [kind |-> "json", detail |-> [msg |-> msg, arg |-> arg]]]

\* An exception that leaves the handler: the server's plain 500 response.
ServerError ==
  [status |-> 500, media_type |-> "text/plain",
   content |-> [kind |-> "text", text |-> "Internal Server Error"]]

\* The body did not parse as DiagramData: the handler is not called.
ValidationError ==
  [status |-> 422, media_type |-> "application/json",
   content |-> [kind |-> "json",
                detail |-> [msg |-> "validation error", arg |-> <<>>]]]

\* The try/except of generate_diagram_endpoint around the rendered bytes.
\* The second except clause evaluates subprocess.CalledProcessError.
EndpointResponse(res) ==
  IF ~res.raised
    THEN [status |-> 200, media_type |-> "image/png",
          content |-> [kind |-> "bytes", bytes |-> res.value]]
  ELSE IF res.exc.type = "FileNotFoundError"
    THEN HTTPException500("Graphviz 'dot' command not found on server.", <<>>)
  ELSE IF "subprocess" \notin MainNames
    THEN ServerError
  ELSE IF res.exc.type = "CalledProcessError"
    THEN HTTPException500("Graphviz rendering failed. Stderr: ",
                          DecodeIgnore(res.exc.stderr))
  ELSE HTTPException500("An unexpected error occurred: ", <<res.exc.type>>)

Init ==
  /\ data = ReqA
  /\ dot_script = NoScript
  /\ EndpointIdle

\* A client's request reaches the server.
Arrive(r, b) ==
  /\ pc[r] = "idle"
  /\ pc' = [pc EXCEPT ![r] = "arrived"]
  /\ body' = [body EXCEPT ![r] = b]
  /\ UNCHANGED <<data, dot_script, script, proc, resp, loop, calls, spawned>>

\* The event loop takes a request whose body does not validate.
Reject(r) ==
  /\ loop = 0
  /\ pc[r] = "arrived"
  /\ ~Validate(body[r])
  /\ resp' = [resp EXCEPT ![r] = ValidationError]
  /\ pc' = [pc EXCEPT ![r] = "responded"]
  /\ UNCHANGED <<data, dot_script, body, script, proc, loop, calls, spawned>>

\* The event loop runs the handler coroutine: it compiles the document and
\* calls subprocess.run on the loop's own thread.  Either the process cannot
\* be started and the handler answers at once, or the thread blocks in
\* subprocess.run until the process ends.
Handle(r, spawn) ==
  /\ loop = 0
  /\ pc[r] = "arrived"
  /\ Validate(body[r])
  /\ calls' = [calls EXCEPT ![r] = @ + 1]
  /\ script' = [script EXCEPT ![r] = GenerateGraphvizDot(DataDict(body[r]))]
  /\ IF spawn = "spawned"
       THEN /\ spawned' = [spawned EXCEPT ![r] = @ + 1]
            /\ proc' = [proc EXCEPT ![r] = [state |-> "running"]]
            /\ pc' = [pc EXCEPT ![r] = "rendering"]
            /\ loop' = r
            /\ UNCHANGED resp
       ELSE /\ proc' = [proc EXCEPT ![r] = [state |-> spawn]]
            /\ resp' = [resp EXCEPT ![r] =
                          EndpointResponse(RenderDiagramToBytes([state |-> spawn]))]
            /\ pc' = [pc EXCEPT ![r] = "responded"]
            /\ UNCHANGED <<spawned, loop>>
  /\ UNCHANGED <<data, dot_script, body>>

\* The renderer process ends; subprocess.run returns or raises and the
\* handler finishes on the event loop thread.
RendererExit(r, p) ==
  /\ pc[r] = "rendering"
  /\ loop = r
  /\ proc' = [proc EXCEPT ![r] = p]
  /\ resp' = [resp EXCEPT ![r] = EndpointResponse(RenderDiagramToBytes(p))]
  /\ pc' = [pc EXCEPT ![r] = "responded"]
  /\ loop' = 0
  /\ UNCHANGED <<data, dot_script, body, script, calls, spawned>>

\* What the event loop can do for an arrived request.
Serve(r) == Reject(r) \/ \E spawn \in {"spawned"} \cup SpawnErrors : Handle(r, spawn)

Next ==
  \/ \E r \in Reqs, b \in Bodies : Arrive(r, b)
  \/ \E r \in Reqs : Reject(r)
  \/ \E r \in Reqs, spawn \in {"spawned"} \cup SpawnErrors : Handle(r, spawn)
  \/ \E r \in Reqs, p \in Exits : RendererExit(r, p)

Spec == Init /\ [][Next]_vars

(***************************************************************************)
(* Properties of the endpoint.                                             *)
(***************************************************************************)
Responded(r) == pc[r] = "responded"

ExitedNonZero(r) == proc[r].state = "exited" /\ proc[r].returncode # 0

\* C2: when the renderer ran and exited with a non-zero status, the response
\* is a 500 whose JSON body is {detail} and whose detail holds the renderer's
\* stderr text, as the handler's render-error clause builds it.
C2_RenderErrorCarriesStderr ==
  \A r \in Reqs :
    (Responded(r) /\ ExitedNonZero(r))
      => /\ resp[r].status = 500
         /\ resp[r].content.kind = "json"
         /\ resp[r].content.detail.msg = "Graphviz rendering failed. Stderr: "
         /\ resp[r].content.detail.arg = DecodeIgnore(proc[r].stderr)

\* C6: a 200 image/png response is given only for a renderer that exited with
\* status zero and its body is that process's standard output; every failure
\* of the renderer (not found, not startable, non-zero exit) is answered with
\* a server error that carries no image bytes.
C6_EngineFailuresAbort ==
  \A r \in Reqs :
    Responded(r) =>
      /\ resp[r].status = 200 =>
           /\ proc[r].state = "exited"
           /\ proc[r].returncode = 0
           /\ resp[r].media_type = "image/png"
           /\ resp[r].content = [kind |-> "bytes", bytes |-> proc[r].stdout]
      /\ (proc[r].state = "exited" /\ proc[r].returncode = 0) =>
           resp[r].status = 200
      /\ (proc[r].state \in SpawnErrors \/ ExitedNonZero(r)) =>
           /\ resp[r].status = 500
           /\ resp[r].content.kind # "bytes"
           /\ resp[r].media_type # "image/png"

\* A renderer that wrote output and exited non-zero has been answered with a
\* server error, and another one that exited zero with its output.
C6_Witness ==
  /\ \E r \in Reqs :
       /\ Responded(r)
       /\ ExitedNonZero(r)
       /\ proc[r].stdout # <<>>
       /\ resp[r].status = 500
  /\ \E r \in Reqs :
       /\ Responded(r)
       /\ proc[r].state = "exited"
       /\ proc[r].returncode = 0
       /\ resp[r].status = 200

\* A body that is malformed or lacks a required field.
LacksRequiredField(b) ==
  \/ ~b.wellformed
  \/ \E f \in TopFields : f \notin DOMAIN b.json
  \/ \E i \in 1..Len(b.json.nodes) :
       \E f \in NodeRequired : f \notin DOMAIN b.json.nodes[i]
  \/ \E k \in 1..Len(b.json.connections) :
       \E f \in ConnRequired : f \notin DOMAIN b.json.connections[k]

\* C7: for a request whose body is malformed or lacks a required field the
\* compiler is never called and no renderer process is started, and its
\* response, once given, is a client error.
C7_MalformedBodyRejected ==
  \A r \in Reqs :
    (pc[r] # "idle" /\ LacksRequiredField(body[r]))
      => /\ calls[r] = 0
         /\ spawned[r] = 0
         /\ script[r] = NoScript
         /\ proc[r] = NoProc
         /\ pc[r] # "rendering"
         /\ Responded(r) => resp[r].status \in 400..499

\* A body whose connection lacks its direction has been answered with 422
\* while a body that only lacks has_local_db has been compiled.
C7_Witness ==
  /\ \E r \in Reqs :
       /\ Responded(r)
       /\ body[r].wellformed
       /\ TopFields \subseteq DOMAIN body[r].json
       /\ "direction" \notin DOMAIN body[r].json.connections[1]
       /\ resp[r].status = 422
  /\ \E r \in Reqs :
       /\ body[r].wellformed
       /\ TopFields \subseteq DOMAIN body[r].json
       /\ "has_local_db" \notin DOMAIN body[r].json.nodes[1]
       /\ calls[r] = 1

\* C8: while one request waits for its renderer process, every other request
\* that has arrived can be taken up by the server.
C8_RenderDoesNotStall ==
  \A r1, r2 \in Reqs :
    (r1 # r2 /\ pc[r1] = "rendering" /\ pc[r2] = "arrived")
      => ENABLED Serve(r2)

(***************************************************************************)
(* Endpoints of the document's edges.                                      *)
(***************************************************************************)
\* The ids the document declares: its node declarations and its footer node.
DeclaredIds ==
  {dot_script[i].id : i \in {j \in 1..Len(dot_script) :
                               dot_script[j].kind \in {"node", "footer"}}}

\* The edge statements of the document, the invisible ordering edge included.
AllEdgeStmts ==
  SelectSeq(dot_script, LAMBDA st : st.kind \in {"edge", "invis_edge"})

\* C11: every edge statement of the document, the invisible ordering edge
\* that pins the footer included, has both endpoints declared in the document
\* as a node declaration or as the footer node.
C11_EdgeEndpointsDeclared ==
  Compiled =>
    \A i \in 1..Len(AllEdgeStmts) :
      /\ AllEdgeStmts[i].src \in DeclaredIds
      /\ AllEdgeStmts[i].tgt \in DeclaredIds

====
